---- MODULE Spec2Model ----
(***************************************************************************)
(* Model of src/sistema_inventario.py: the classes Producto and Inventario *)
(* and the interactive loop menu_principal.                                *)
(*                                                                         *)
(* Python values are records [k, n, s, t]: t is the runtime type ("str",   *)
(* "int", "float", "bool", "none"), k the kind of a number ("fin", "nan",  *)
(* "inf", "ninf" for floats; "fin", "huge" for ints, "huge" being a        *)
(* positive int beyond the range of a float), n the value of a finite      *)
(* number, s the characters of a str.                                      *)
(***************************************************************************)
EXTENDS Integers, Sequences, FiniteSets, TLC

VARIABLES heap, lists, ref, lref, given, added, result, pc

vars == <<heap, lists, ref, lref, given, added, result, pc>>

(***************************************************************************)
(* Bounds of the model.                                                    *)
(***************************************************************************)
\* objects alive at once (those held by the Inventario plus the client's one)
MaxObjs == 3
\* length of a str argument
MaxLen == 2
\* length of a list the client has edited
MaxList == 2

(***************************************************************************)
(* Python values.                                                          *)
(***************************************************************************)
Str(s) == [k |-> "fin", n |-> 0, s |-> s, t |-> "str"]
IntV(n) == [k |-> "fin", n |-> n, s |-> <<>>, t |-> "int"]
FloatV(n) == [k |-> "fin", n |-> n, s |-> <<>>, t |-> "float"]
HugeInt == [k |-> "huge", n |-> 0, s |-> <<>>, t |-> "int"]
NaN == [k |-> "nan", n |-> 0, s |-> <<>>, t |-> "float"]
Inf == [k |-> "inf", n |-> 0, s |-> <<>>, t |-> "float"]
NegInf == [k |-> "ninf", n |-> 0, s |-> <<>>, t |-> "float"]
BoolV(b) == [k |-> "fin", n |-> IF b THEN 1 ELSE 0, s |-> <<>>, t |-> "bool"]
NoneV == [k |-> "fin", n |-> 0, s |-> <<>>, t |-> "none"]

\* isinstance(v, str), isinstance(v, int), isinstance(v, (int, float)),
\* isinstance(v, bool): bool is a subclass of int
IsStr(v) == v.t = "str"
IsInt(v) == v.t \in {"int", "bool"}
IsIntOrFloat(v) == v.t \in {"int", "float", "bool"}
\* the bug of leaving the bool test out: True and False pass as 1 and 0
IsBoolForgotten(v) == FALSE
IsBool(v) == v.t = "bool"

\* v < 0 and v <= 0 on a number: every comparison with nan is false
Less0(v) == \/ v.k = "ninf"
            \/ v.k = "fin" /\ v.n < 0
LessEq0(v) == \/ v.k = "ninf"
              \/ v.k = "fin" /\ v.n <= 0

(***************************************************************************)
(* str.strip() and str.lower() on sequences of characters.                 *)
(***************************************************************************)
Chars == {" ", "a", "A", "b"}

IsSpace(c) == c = " "

RECURSIVE LStrip(_)
LStrip(s) == IF s # <<>> /\ IsSpace(Head(s)) THEN LStrip(Tail(s)) ELSE s

RECURSIVE RStrip(_)
RStrip(s) == IF s # <<>> /\ IsSpace(s[Len(s)])
             THEN RStrip(SubSeq(s, 1, Len(s) - 1)) ELSE s

Strip(s) == RStrip(LStrip(s))

LowerChar(c) == CASE c = "A" -> "a"
                  [] c = "B" -> "b"
                  [] OTHER -> c

Lower(s) == [i \in 1..Len(s) |-> LowerChar(s[i])]

(***************************************************************************)
(* Outcomes of a call: the exception raised ("" for none), the start of    *)
(* its message, and the value returned.                                    *)
(***************************************************************************)
NoNum == [k |-> "none", n |-> 0]
NoObj == [cantidad |-> NoNum, nombre |-> <<>>, precio |-> NoNum]

Raise(exc, msg) == [exc |-> exc, msg |-> msg, obj |-> NoObj]
Return(obj) == [exc |-> "", msg |-> "", obj |-> obj]

\* float(v) of an int or a float; an int beyond the float range raises
ToFloatOverflows(v) == v.t = "int" /\ v.k = "huge"
ToFloat(v) == [k |-> v.k, n |-> v.n]
\* int(v) of an int
ToInt(v) == [k |-> v.k, n |-> v.n]

(***************************************************************************)
(* class Producto                                                          *)
(***************************************************************************)
\* Producto.__init__
Producto(nombre, precio, cantidad) ==
    IF ~IsStr(nombre) THEN Raise("TypeError", "El nombre debe ser")
    ELSE LET nombre_normalizado == Strip(nombre.s) IN
    IF nombre_normalizado = <<>> THEN Raise("ValueError", "El nombre no puede")
    ELSE IF ~IsIntOrFloat(precio) \/ IsBool(precio)
         THEN Raise("TypeError", "El precio debe ser")
    ELSE IF Less0(precio) THEN Raise("ValueError", "El precio no puede")
    ELSE IF ~IsInt(cantidad) \/ IsBool(cantidad)
         THEN Raise("TypeError", "La cantidad debe ser")
    ELSE IF Less0(cantidad) THEN Raise("ValueError", "La cantidad no puede")
    ELSE IF ToFloatOverflows(precio)
         THEN Raise("OverflowError", "int too large")
    ELSE Return([cantidad |-> ToInt(cantidad),
                 nombre |-> nombre_normalizado,
                 precio |-> ToFloat(precio)])

\* Producto.actualizar_precio: the outcome holds the object after the call
actualizar_precio(self, nuevo_precio) ==
    IF ~IsIntOrFloat(nuevo_precio) \/ IsBool(nuevo_precio)
    THEN [Raise("TypeError", "El nuevo precio debe ser numerico") EXCEPT !.obj = self]
    ELSE IF LessEq0(nuevo_precio)
    THEN [Raise("ValueError", "El nuevo precio debe ser mayor") EXCEPT !.obj = self]
    ELSE IF ToFloatOverflows(nuevo_precio)
    THEN [Raise("OverflowError", "int too large") EXCEPT !.obj = self]
    ELSE Return([self EXCEPT !.precio = ToFloat(nuevo_precio)])

\* Producto.actualizar_cantidad
actualizar_cantidad(self, nueva_cantidad) ==
    IF ~IsInt(nueva_cantidad) \/ IsBool(nueva_cantidad)
    THEN [Raise("TypeError", "La nueva cantidad debe ser") EXCEPT !.obj = self]
    ELSE IF Less0(nueva_cantidad)
    THEN [Raise("ValueError", "La nueva cantidad no puede") EXCEPT !.obj = self]
    ELSE Return([self EXCEPT !.cantidad = ToInt(nueva_cantidad)])


\* float * int, as Producto.calcular_valor_total computes precio * cantidad:
\* the int is converted to a float first
Mul(precio, cantidad) ==
    CASE precio.k = "nan" -> [k |-> "nan", n |-> 0]
      [] precio.k = "inf" /\ cantidad.n = 0 -> [k |-> "nan", n |-> 0]
      [] precio.k = "inf" /\ cantidad.n # 0 -> [k |-> "inf", n |-> 0]
      [] OTHER -> [k |-> "fin", n |-> precio.n * cantidad.n]

\* the bug of returning the price, not price x quantity
valor_sin_cantidad(self) ==
    [exc |-> "", msg |-> "", val |-> [k |-> self.precio.k, n |-> self.precio.n]]

\* Producto.calcular_valor_total
calcular_valor_total(self) ==
    IF self.cantidad.k = "huge"
    THEN [exc |-> "OverflowError", msg |-> "int too large", val |-> NoNum]
    ELSE [exc |-> "", msg |-> "", val |-> Mul(self.precio, self.cantidad)]

\* Producto.__str__: formatting calls calcular_valor_total
ProductoStr(self) == calcular_valor_total(self).exc

(***************************************************************************)
(* class Inventario.  heap maps a handle to the Producto it names (NoObj   *)
(* for a free handle); lists maps a list object to its elements, lists[1]  *)
(* being self._productos and lists[2] the list listar_productos returned   *)
(* last.                                                                   *)
(***************************************************************************)
Handles == 1..MaxObjs
Productos == 1
Copia == 2

\* a + b on floats (the int 0 that sum() starts from included)
Plus(a, b) ==
    CASE a.k = "nan" \/ b.k = "nan" -> [k |-> "nan", n |-> 0]
      [] a.k = "inf" \/ b.k = "inf" -> [k |-> "inf", n |-> 0]
      [] OTHER -> [k |-> "fin", n |-> a.n + b.n]

\* sum(...) over the products from position i on, acc being the sum so far
RECURSIVE SumFrom(_, _, _, _)
SumFrom(hp, productos, i, acc) ==
    IF i > Len(productos) THEN [exc |-> "", msg |-> "", val |-> acc]
    ELSE LET v == calcular_valor_total(hp[productos[i]]) IN
         IF v.exc # "" THEN v
         ELSE SumFrom(hp, productos, i + 1, Plus(acc, v.val))

\* Inventario.calcular_valor_inventario
calcular_valor_inventario(hp, productos) ==
    SumFrom(hp, productos, 1, [k |-> "fin", n |-> 0])

\* the bug of comparing the names as they are, case included
NombreIdentico(nombre_producto, nombre_normalizado) ==
    nombre_producto = nombre_normalizado

\* the two sides of the comparison in buscar_producto's loop
NombreCoincide(nombre_producto, nombre_normalizado) ==
    Lower(nombre_producto) = Lower(nombre_normalizado)

\* the for loop of buscar_producto from position i on: the handle of the
\* first product whose name matches, 0 when the loop ends without one
RECURSIVE BuscarDesde(_, _, _, _)
BuscarDesde(hp, productos, i, nombre_normalizado) ==
    IF i > Len(productos) THEN 0
    ELSE IF NombreCoincide(hp[productos[i]].nombre, nombre_normalizado)
         THEN productos[i]
         ELSE BuscarDesde(hp, productos, i + 1, nombre_normalizado)

RaiseH(exc, msg) == [exc |-> exc, h |-> 0, msg |-> msg]

\* the bug of searching for the argument untrimmed
SinNormalizar(s) == s

\* the normalisation of the argument in buscar_producto
NormalizarBusqueda(s) == Strip(s)

\* Inventario.buscar_producto
buscar_producto(hp, productos, nombre) ==
    IF ~IsStr(nombre) THEN RaiseH("TypeError", "El nombre de busqueda debe ser")
    ELSE LET nombre_normalizado == NormalizarBusqueda(nombre.s) IN
    IF nombre_normalizado = <<>>
    THEN RaiseH("ValueError", "El nombre de busqueda no puede")
    ELSE LET h == BuscarDesde(hp, productos, 1, nombre_normalizado) IN
         IF h # 0 THEN [exc |-> "", h |-> h, msg |-> ""]
         ELSE RaiseH("KeyError", "Producto con nombre")

\* the bug of inserting the new product first
agregar_al_principio(hp, productos, producto) ==
    IF producto = 0
    THEN [exc |-> "TypeError", msg |-> "Solo se pueden agregar", productos |-> productos]
    ELSE IF buscar_producto(hp, productos, Str(hp[producto].nombre)).exc = "KeyError"
         THEN [exc |-> "", msg |-> "", productos |-> <<producto>> \o productos]
         ELSE [exc |-> "ValueError", msg |-> "Ya existe un producto", productos |-> productos]

\* Inventario.agregar_producto: the outcome and self._productos after the
\* call; the argument is a handle, 0 standing for a value that is no Producto
agregar_producto(hp, productos, producto) ==
    IF producto = 0
    THEN [exc |-> "TypeError", msg |-> "Solo se pueden agregar", productos |-> productos]
    ELSE LET b == buscar_producto(hp, productos, Str(hp[producto].nombre)) IN
         IF b.exc = "KeyError"
         THEN [exc |-> "", msg |-> "", productos |-> Append(productos, producto)]
         ELSE IF b.exc # ""
         THEN [exc |-> b.exc, msg |-> b.msg, productos |-> productos]
         ELSE [exc |-> "ValueError", msg |-> "Ya existe un producto", productos |-> productos]

\* the bug of returning self._productos itself
listar_sin_copiar(ls) == [lista |-> Productos, lists |-> ls]

\* Inventario.listar_productos: the list object returned and the lists after
\* the call (list(...) builds a new list object)
listar_productos(ls) == [lista |-> Copia, lists |-> [ls EXCEPT ![Copia] = ls[Productos]]]


(***************************************************************************)
(* The state.  ref is the Producto the caller holds (0 for none), lref the *)
(* list the caller got from listar_productos (0 for none).  An object no   *)
(* list and no variable refers to any more is freed.  given and added are  *)
(* history: the nombre each live object was constructed with, and the      *)
(* objects whose agregar_producto succeeded, in that order.  result is the *)
(* last call: its name, arguments, exception, and what it returned.        *)
(***************************************************************************)
Range(s) == {s[i] : i \in 1..Len(s)}

Reachable(ls, r) == Range(ls[Productos]) \cup Range(ls[Copia]) \cup ({r} \ {0})

Collect(hp, ls, r) == [h \in Handles |-> IF h \in Reachable(ls, r) THEN hp[h] ELSE NoObj]

CollectGiven(gv, ls, r) == [h \in Handles |-> IF h \in Reachable(ls, r) THEN gv[h] ELSE <<>>]

Res(op, exc, msg, args, h, val, pre, old) ==
    [args |-> args, exc |-> exc, h |-> h, msg |-> msg, old |-> old, op |-> op,
     pre |-> pre, val |-> val]

Init ==
    /\ heap = [h \in Handles |-> NoObj]
    /\ lists = [l \in {Productos, Copia} |-> <<>>]
    /\ ref = 0
    /\ lref = 0
    /\ given = [h \in Handles |-> <<>>]
    /\ added = <<>>
    /\ result = Res("", "", "", <<>>, 0, NoNum, <<>>, NoObj)
    /\ pc = "menu"

\* the state after a call: hp, ls, r, lr, gv are the heap, the lists and the
\* caller's variables as the call leaves them
Step(hp, ls, r, lr, gv, res) ==
    /\ heap' = Collect(hp, ls, r)
    /\ lists' = ls
    /\ ref' = r
    /\ lref' = lr
    /\ given' = CollectGiven(gv, ls, r)
    /\ result' = res

\* p = Producto(nombre, precio, cantidad)
Construct(nombre, precio, cantidad) ==
    LET o == Producto(nombre, precio, cantidad)
        free == {h \in Handles : h \notin Reachable(lists, 0)}
        new == CHOOSE h \in free : \A g \in free : h <= g
        res == Res("construct", o.exc, o.msg, <<nombre, precio, cantidad>>,
                   IF o.exc = "" THEN new ELSE 0, NoNum, lists[Productos], NoObj)
    IN /\ pc = "menu"
       /\ IF o.exc # ""
          THEN Step(heap, lists, ref, lref, given, res)
          ELSE /\ free # {}
               /\ Step([heap EXCEPT ![new] = o.obj], lists, new, lref,
                       [given EXCEPT ![new] = nombre.s], res)
       /\ UNCHANGED <<added, pc>>

\* p.actualizar_precio(v) on the Producto the caller holds
SetPrice(v) ==
    /\ pc = "menu"
    /\ ref # 0
    /\ LET o == actualizar_precio(heap[ref], v) IN
       Step([heap EXCEPT ![ref] = o.obj], lists, ref, lref, given,
            Res("set_price", o.exc, o.msg, <<v>>, ref, NoNum, lists[Productos], heap[ref]))
    /\ UNCHANGED <<added, pc>>

\* p.actualizar_cantidad(v) on the Producto the caller holds
SetQuantity(v) ==
    /\ pc = "menu"
    /\ ref # 0
    /\ LET o == actualizar_cantidad(heap[ref], v) IN
       Step([heap EXCEPT ![ref] = o.obj], lists, ref, lref, given,
            Res("set_quantity", o.exc, o.msg, <<v>>, ref, NoNum, lists[Productos], heap[ref]))
    /\ UNCHANGED <<added, pc>>

\* inventario.agregar_producto(p), p the Producto the caller holds
Add ==
    /\ pc = "menu"
    /\ ref # 0
    /\ LET o == agregar_producto(heap, lists[Productos], ref) IN
       /\ Step(heap, [lists EXCEPT ![Productos] = o.productos], ref, lref, given,
               Res("add", o.exc, o.msg, <<>>, ref, NoNum, lists[Productos], heap[ref]))
       /\ added' = IF o.exc = "" THEN Append(added, ref) ELSE added
    /\ UNCHANGED pc

\* inventario.agregar_producto(x), x no Producto
AddOther ==
    /\ pc = "menu"
    /\ LET o == agregar_producto(heap, lists[Productos], 0) IN
       Step(heap, [lists EXCEPT ![Productos] = o.productos], ref, lref, given,
            Res("add", o.exc, o.msg, <<NoneV>>, 0, NoNum, lists[Productos], NoObj))
    /\ UNCHANGED <<added, pc>>

\* p = inventario.buscar_producto(nombre)
Find(nombre) ==
    /\ pc = "menu"
    /\ LET o == buscar_producto(heap, lists[Productos], nombre) IN
       Step(heap, lists, IF o.exc = "" THEN o.h ELSE ref, lref, given,
            Res("find", o.exc, o.msg, <<nombre>>, o.h, NoNum, lists[Productos], NoObj))
    /\ UNCHANGED <<added, pc>>

\* inventario.calcular_valor_inventario()
Total ==
    /\ pc = "menu"
    /\ LET o == calcular_valor_inventario(heap, lists[Productos]) IN
       Step(heap, lists, ref, lref, given,
            Res("total", o.exc, o.msg, <<>>, 0, o.val, lists[Productos], NoObj))
    /\ UNCHANGED <<added, pc>>

\* l = inventario.listar_productos()
ListAll ==
    /\ pc = "menu"
    /\ LET o == listar_productos(lists) IN
       Step(heap, o.lists, ref, o.lista, given,
            Res("list_all", "", "", <<>>, 0, NoNum, lists[Productos], NoObj))
    /\ UNCHANGED <<added, pc>>

\* p = l[i]
Pick(i) ==
    /\ pc = "menu"
    /\ lref # 0
    /\ i \in 1..Len(lists[lref])
    /\ Step(heap, lists, lists[lref][i], lref, given,
            Res("pick", "", "", <<IntV(i)>>, lists[lref][i], NoNum, lists[Productos], NoObj))
    /\ UNCHANGED <<added, pc>>

\* l.append(p), l.pop(), l.reverse() on the list the caller got
ListAppend ==
    /\ pc = "menu"
    /\ lref # 0
    /\ ref # 0
    /\ Len(lists[lref]) < MaxList
    /\ Step(heap, [lists EXCEPT ![lref] = Append(@, ref)], ref, lref, given,
            Res("l.append", "", "", <<>>, ref, NoNum, lists[Productos], NoObj))
    /\ UNCHANGED <<added, pc>>

ListPop ==
    /\ pc = "menu"
    /\ lref # 0
    /\ lists[lref] # <<>>
    /\ Step(heap, [lists EXCEPT ![lref] = SubSeq(@, 1, Len(@) - 1)], ref, lref, given,
            Res("l.pop", "", "", <<>>, 0, NoNum, lists[Productos], NoObj))
    /\ UNCHANGED <<added, pc>>

ListReverse ==
    /\ pc = "menu"
    /\ lref # 0
    /\ Len(lists[lref]) > 1
    /\ Step(heap, [lists EXCEPT ![lref] = [i \in 1..Len(@) |-> @[Len(@) + 1 - i]]],
            ref, lref, given,
            Res("l.reverse", "", "", <<>>, 0, NoNum, lists[Productos], NoObj))
    /\ UNCHANGED <<added, pc>>

(***************************************************************************)
(* Producto alone: every argument of the constructor and of the two        *)
(* setters, of every type.                                                 *)
(***************************************************************************)
Texts == UNION {[1..n -> Chars] : n \in 0..MaxLen}

AnyNumber == {IntV(-1), IntV(0), IntV(2), FloatV(-1), FloatV(0), FloatV(1),
              NaN, Inf, NegInf, HugeInt}
AnyValue == AnyNumber \cup {BoolV(TRUE), BoolV(FALSE), Str(<<"a">>), NoneV}
AnyName == {Str(s) : s \in Texts} \cup {IntV(1), NoneV}

\* the arguments of the constructor are drawn first
ProductInit ==
    /\ heap = [h \in Handles |-> NoObj]
    /\ lists = [l \in {Productos, Copia} |-> <<>>]
    /\ ref = 0
    /\ lref = 0
    /\ given = [h \in Handles |-> <<>>]
    /\ added = <<>>
    /\ \E nombre \in AnyName, precio \in AnyValue, cantidad \in AnyValue :
          result = Res("args", "", "", <<nombre, precio, cantidad>>, 0, NoNum, <<>>, NoObj)
    /\ pc = "menu"

ConstructArgs ==
    /\ result.op = "args"
    /\ Construct(result.args[1], result.args[2], result.args[3])

\* one Producto is constructed and then updated
ProductNext ==
    \/ ConstructArgs
    \/ \E v \in AnyValue : SetPrice(v)
    \/ \E v \in AnyValue : SetQuantity(v)

ProductSpec == ProductInit /\ [][ProductNext]_vars

\* the object the last call was made on, or made
Obj == heap[result.h]

Called(op) == result.op = op
Failed(exc) == result.exc = exc
Succeeded == result.exc = ""

\* a stored number is >= 0 (false of nan)
GeZero(x) == x.k \in {"inf", "huge"} \/ (x.k = "fin" /\ x.n >= 0)
\* an argument is True or False
IsBoolean(v) == v.t = "bool"
\* an argument is a number (no bool) and < 0, <= 0, > 0, >= 0
IsNumber(v) == v.t \in {"int", "float"}
NumLess0(v) == IsNumber(v) /\ Less0(v)
NumLessEq0(v) == IsNumber(v) /\ LessEq0(v)
NumGreater0(v) == IsNumber(v) /\ (v.k \in {"inf", "huge"} \/ (v.k = "fin" /\ v.n > 0))
NumGeZero(v) == IsNumber(v) /\ (v.k \in {"inf", "huge"} \/ (v.k = "fin" /\ v.n >= 0))
\* an argument is a text whose trimmed form is empty / is not empty
BlankText(v) == IsStr(v) /\ \A i \in 1..Len(v.s) : v.s[i] = " "
NamedText(v) == IsStr(v) /\ \E i \in 1..Len(v.s) : v.s[i] # " "

\* C3 (as claimed): every constructed Producto, whatever calls of the setters
\* followed, has price >= 0, quantity >= 0, and a name that is not empty,
\* has no leading or trailing whitespace and is the trimmed name it was
\* constructed with.
C3_ProductInvariant ==
    \A h \in Handles : heap[h] # NoObj =>
        /\ GeZero(heap[h].precio)
        /\ GeZero(heap[h].cantidad)
        /\ heap[h].nombre # <<>>
        /\ heap[h].nombre[1] # " "
        /\ heap[h].nombre[Len(heap[h].nombre)] # " "
        /\ heap[h].nombre = Strip(given[h])

\* C4 (as claimed): a boolean price or quantity makes the constructor fail
\* with TypeError whatever the other arguments are, and a boolean argument
\* makes each setter fail with TypeError.
C4_BoolAlwaysTypeError ==
    /\ Called("construct") /\ (IsBoolean(result.args[2]) \/ IsBoolean(result.args[3]))
          => Failed("TypeError")
    /\ (Called("set_price") \/ Called("set_quantity")) /\ IsBoolean(result.args[1])
          => Failed("TypeError")

\* C4 (amended): a boolean price makes the constructor fail with TypeError
\* unless the name is a text that is empty once trimmed; a boolean quantity
\* makes it fail with TypeError unless the name is such a text or the price
\* is a number < 0; in those cases it fails with ValueError.  A boolean
\* argument makes each setter fail with TypeError.
C4_BoolTypeErrorInOrder ==
    /\ Called("construct") /\ IsBoolean(result.args[2]) =>
          IF BlankText(result.args[1]) THEN Failed("ValueError") ELSE Failed("TypeError")
    /\ Called("construct") /\ IsBoolean(result.args[3]) =>
          IF BlankText(result.args[1]) \/ (NamedText(result.args[1]) /\ NumLess0(result.args[2]))
          THEN Failed("ValueError") ELSE Failed("TypeError")
    /\ (Called("set_price") \/ Called("set_quantity")) /\ IsBoolean(result.args[1])
          => Failed("TypeError")

\* C4 witness: a boolean quantity reached the quantity check, after a good
\* name and a good price, and was refused
C4_Witness ==
    /\ Called("construct") /\ Failed("TypeError")
    /\ NamedText(result.args[1]) /\ NumGeZero(result.args[2]) /\ IsBoolean(result.args[3])

\* C5 (as claimed): a price < 0 or a quantity < 0 makes the constructor fail
\* with ValueError whatever the other arguments are, and a text name that is
\* not empty once trimmed, a number >= 0 as price and an integer >= 0 as
\* quantity make it succeed.
C5_ConstructValues ==
    /\ Called("construct") /\ (NumLess0(result.args[2]) \/ NumLess0(result.args[3]))
          => Failed("ValueError")
    /\ Called("construct") /\ NamedText(result.args[1]) /\ NumGeZero(result.args[2])
          /\ result.args[3].t = "int" /\ NumGeZero(result.args[3])
          => Succeeded

\* C10 (as claimed): actualizar_precio fails with ValueError for every number
\* <= 0 and succeeds for every number > 0; a failing setter leaves the object
\* as it was, actualizar_precio changes the price only and
\* actualizar_cantidad the quantity only.
C10_SetterFrame ==
    /\ Called("set_price") /\ NumLessEq0(result.args[1]) => Failed("ValueError")
    /\ Called("set_price") /\ NumGreater0(result.args[1]) => Succeeded
    /\ (Called("set_price") \/ Called("set_quantity")) /\ ~Succeeded => Obj = result.old
    /\ Called("set_price") /\ Succeeded =>
          Obj = [result.old EXCEPT !.precio = ToFloat(result.args[1])]
    /\ Called("set_quantity") /\ Succeeded =>
          Obj = [result.old EXCEPT !.cantidad = ToInt(result.args[1])]

(***************************************************************************)
(* Inventario under any sequence of calls.                                 *)
(***************************************************************************)
SomeNames == {Str(<<"a">>), Str(<<"A">>), Str(<<"b">>), Str(<<" ">>)}
SomeSearches == {Str(<<"a">>), Str(<<" ", "A">>), Str(<<"b", " ">>), Str(<<" ">>), IntV(1)}
SomePrices == {IntV(0), IntV(2), BoolV(TRUE)}
SomeQuantities == {IntV(-1), IntV(2)}

Next ==
    \/ \E nombre \in SomeNames : Construct(nombre, FloatV(1), IntV(1))
    \/ Add
    \/ AddOther
    \/ \E nombre \in SomeSearches : Find(nombre)
    \/ Total
    \/ ListAll
    \/ \E i \in 1..MaxObjs : Pick(i)
    \/ \E v \in SomePrices : SetPrice(v)
    \/ \E v \in SomeQuantities : SetQuantity(v)

Spec == Init /\ [][Next]_vars

\* the collection of the Inventario, and the names in it
Held == lists[Productos]
HeldName(i) == heap[Held[i]].nombre

\* the error kinds: DuplicateKey and InvalidValue are both ValueError, told
\* apart by the message
DuplicateKey == result.exc = "ValueError" /\ result.msg = "Ya existe un producto"
NotFound == result.exc = "KeyError"
InvalidValue == result.exc = "ValueError" /\ ~DuplicateKey

\* C1: any two products at distinct positions of the collection have names
\* that differ once lower-cased.
C1_UniqueNames ==
    \A i, j \in 1..Len(Held) : i # j => Lower(HeldName(i)) # Lower(HeldName(j))

\* C1 witness: two products are held and a third, whose name differs from a
\* held one by case alone, was refused
C1_Witness ==
    /\ Len(Held) = 2
    /\ Called("add") /\ DuplicateKey
    /\ \E i \in 1..Len(Held) : HeldName(i) # Obj.nombre /\ Lower(HeldName(i)) = Lower(Obj.nombre)

\* the positions of the collection pre whose name is s, case apart
Matches(pre, s) == {i \in 1..Len(pre) : Lower(heap[pre[i]].nombre) = Lower(s)}

\* C2: agregar_producto of a Producto whose name is, case apart, that of a
\* held product fails with DuplicateKey and leaves the collection as it was;
\* of a Producto whose name matches none it succeeds and the collection is
\* the old one with the product appended.
C2_AddAppendsOrRefuses ==
    Called("add") /\ result.h # 0 =>
        IF Matches(result.pre, Obj.nombre) # {}
        THEN DuplicateKey /\ Held = result.pre
        ELSE Succeeded /\ Held = Append(result.pre, result.h)

\* C2 witness: a product was appended to a collection that held one already
C2_Witness ==
    /\ Called("add") /\ Succeeded
    /\ Len(result.pre) = 1 /\ Held = Append(result.pre, result.h)

\* C6: buscar_producto of a text that is not empty once trimmed returns the
\* held product whose lower-cased name is the lower-cased trimmed text (the
\* first one, and there is one at most) and fails with NotFound exactly when
\* there is none; of a text that is empty once trimmed it fails with
\* InvalidValue; it never changes the collection.
C6_FindFirstMatch ==
    Called("find") =>
        /\ Held = result.pre
        /\ NamedText(result.args[1]) =>
              LET m == Matches(Held, Strip(result.args[1].s)) IN
              IF m = {} THEN NotFound
              ELSE /\ Succeeded
                   /\ Cardinality(m) = 1
                   /\ \A i \in m : result.h = Held[i]
        /\ BlankText(result.args[1]) => InvalidValue

\* C6 witness: a text with whitespace before a name in the other case found
\* the second of two products
C6_Witness ==
    /\ Called("find") /\ Succeeded
    /\ Len(Held) = 2 /\ result.h = Held[2]
    /\ Len(result.args[1].s) > Len(Obj.nombre)
    /\ Strip(result.args[1].s) # Obj.nombre

\* the sum of price x quantity over the positions 1..n of the collection
RECURSIVE SumOfValues(_)
SumOfValues(n) ==
    IF n = 0 THEN 0
    ELSE SumOfValues(n - 1) + heap[Held[n]].precio.n * heap[Held[n]].cantidad.n

\* C8: in every state calcular_valor_inventario() is the sum over the held
\* products of their current price x quantity (0 for an empty Inventario),
\* and so is the value the last call of it returned; prices and quantities
\* are small integers here.
C8_TotalIsSum ==
    LET total == calcular_valor_inventario(heap, Held) IN
    /\ total.exc = ""
    /\ total.val = [k |-> "fin", n |-> SumOfValues(Len(Held))]
    /\ Called("total") => Succeeded /\ result.val = total.val
    /\ Held = <<>> => total.val.n = 0

\* C8 witness: the price of a held product, one of two, was just updated
\* through the reference the caller holds
C8_Witness ==
    /\ Called("set_price") /\ Succeeded
    /\ Len(Held) = 2 /\ result.h \in Range(Held)
    /\ Obj.precio # result.old.precio /\ Obj.cantidad.n = 2

(***************************************************************************)
(* Inventario and a caller that edits the lists listar_productos returns.  *)
(***************************************************************************)
ListNames == {Str(<<"a">>), Str(<<"b">>)}
ListSearches == {Str(<<"A">>), Str(<<"b">>)}

ListNext ==
    \/ \E nombre \in ListNames : Construct(nombre, FloatV(1), IntV(2))
    \/ Add
    \/ \E nombre \in ListSearches : Find(nombre)
    \/ Total
    \/ ListAll
    \/ \E i \in 1..MaxList : Pick(i)
    \/ ListAppend
    \/ ListPop
    \/ ListReverse

ListSpec == Init /\ [][ListNext]_vars

\* C7: listar_productos returns the held products in the order in which
\* their agregar_producto succeeded, and whatever the caller does to a list
\* it returned, the collection stays that of the successful adds, and so do
\* the results of the later listar_productos, buscar_producto and
\* calcular_valor_inventario.
C7_ListIsIndependentCopy ==
    /\ Called("list_all") => lref # 0 /\ lists[lref] = added
    /\ Held = added
    /\ Called("find") =>
          LET o == buscar_producto(heap, added, result.args[1]) IN
          result.exc = o.exc /\ result.h = o.h
    /\ Called("total") =>
          LET o == calcular_valor_inventario(heap, added) IN
          result.exc = o.exc /\ result.val = o.val

\* C7 witness: the caller has reversed a list of two products it got
C7_Witness ==
    /\ Called("l.reverse")
    /\ Len(added) = 2 /\ Len(lists[lref]) = 2
    /\ lists[lref] # added

(***************************************************************************)
(* menu_principal: one action per turn of the while loop, from the menu    *)
(* prompt back to it.  pc is "menu" at the prompt, "salir" once the loop   *)
(* was left by break, "crash" once an exception left the function.  What   *)
(* the user types is a sequence of characters; BigDigits stands for the    *)
(* digit 1 followed by 400 zeros.                                          *)
(***************************************************************************)
BigDigits == <<"1", "0 (400 times)">>

NoValue == [k |-> "fin", n |-> 0, s |-> <<>>, t |-> "error"]

\* float(text): NoValue when it raises ValueError
ParseFloat(text) ==
    CASE text = <<"1">> -> FloatV(1)
      [] text = <<"-", "1">> -> FloatV(-1)
      [] text = <<"n", "a", "n">> -> NaN
      [] text = BigDigits -> Inf
      [] OTHER -> NoValue

\* int(text): NoValue when it raises ValueError
ParseInt(text) ==
    CASE text = <<"1">> -> IntV(1)
      [] text = <<"-", "1">> -> IntV(-1)
      [] text = BigDigits -> HugeInt
      [] OTHER -> NoValue

\* whether an except clause of the given classes catches the exception;
\* "Exception" catches every exception the model raises
Catches(classes, exc) == exc \in classes \/ "Exception" \in classes

\* the state after a menu action that raised exc (or none) under the given
\* except clauses
Turn(hp, ls, r, lr, gv, res, classes) ==
    /\ Step(hp, ls, r, lr, gv, res)
    /\ pc' = IF res.exc = "" \/ Catches(classes, res.exc) THEN "menu" ELSE "crash"
    /\ UNCHANGED added

ShellRes(op, exc, msg, args, h) == Res(op, exc, msg, args, h, NoNum, lists[Productos], NoObj)

\* opcion == "1"
Opcion1(nombre_txt, precio_str, cantidad_str) ==
    LET nombre == Strip(nombre_txt)
        precio == ParseFloat(Strip(precio_str))
        cantidad == ParseInt(Strip(cantidad_str))
        o == Producto(Str(nombre), precio, cantidad)
        free == {h \in Handles : h \notin Reachable(lists, 0)}
        new == CHOOSE h \in free : \A g \in free : h <= g
        hp == [heap EXCEPT ![new] = o.obj]
        a == agregar_producto(hp, lists[Productos], new)
        args == <<Str(nombre_txt), Str(precio_str), Str(cantidad_str)>>
        classes == {"ValueError", "TypeError", "Exception"}
    IN /\ pc = "menu"
       /\ IF precio = NoValue
          THEN Turn(heap, lists, ref, lref, given,
                    ShellRes("opcion1", "ValueError", "could not convert string to float", args, 0),
                    classes)
          ELSE IF cantidad = NoValue
          THEN Turn(heap, lists, ref, lref, given,
                    ShellRes("opcion1", "ValueError", "invalid literal for int()", args, 0),
                    classes)
          ELSE IF o.exc # ""
          THEN Turn(heap, lists, ref, lref, given,
                    ShellRes("opcion1", o.exc, o.msg, args, 0), classes)
          ELSE /\ free # {}
               /\ Turn(hp, [lists EXCEPT ![Productos] = a.productos], new, lref,
                       [given EXCEPT ![new] = nombre], ShellRes("opcion1", a.exc, a.msg, args, new),
                       classes)

\* opcion == "2"
Opcion2(nombre_txt) ==
    LET o == buscar_producto(heap, lists[Productos], Str(Strip(nombre_txt)))
        printed == IF o.exc = "" THEN ProductoStr(heap[o.h]) ELSE ""
        classes == {"ValueError", "TypeError", "KeyError"}
    IN /\ pc = "menu"
       /\ IF o.exc # ""
          THEN Turn(heap, lists, ref, lref, given,
                    ShellRes("opcion2", o.exc, o.msg, <<Str(nombre_txt)>>, 0), classes)
          ELSE Turn(heap, lists, o.h, lref, given,
                    ShellRes("opcion2", printed, "", <<Str(nombre_txt)>>, o.h), classes)

\* the for loop of option 3 from position i on: the exception print raises
RECURSIVE PrintFrom(_, _, _)
PrintFrom(hp, productos, i) ==
    IF i > Len(productos) THEN ""
    ELSE IF ProductoStr(hp[productos[i]]) # "" THEN ProductoStr(hp[productos[i]])
    ELSE PrintFrom(hp, productos, i + 1)

\* opcion == "3"
Opcion3 ==
    LET o == listar_productos(lists)
        printed == PrintFrom(heap, o.lists[o.lista], 1)
    IN /\ pc = "menu"
       /\ Turn(heap, o.lists, ref, o.lista, given,
               ShellRes("opcion3", printed, "", <<>>, 0), {})

\* opcion == "4"
Opcion4 ==
    LET o == calcular_valor_inventario(heap, lists[Productos]) IN
    /\ pc = "menu"
    /\ Turn(heap, lists, ref, lref, given,
            Res("opcion4", o.exc, o.msg, <<>>, 0, o.val, lists[Productos], NoObj),
            {"Exception"})

\* opcion == "5"
Opcion5 ==
    /\ pc = "menu"
    /\ Step(heap, lists, ref, lref, given, ShellRes("opcion5", "", "", <<>>, 0))
    /\ pc' = "salir"
    /\ UNCHANGED added

\* any other text
OpcionInvalida(opcion) ==
    /\ pc = "menu"
    /\ Turn(heap, lists, ref, lref, given,
            ShellRes("invalida", "", "", <<Str(opcion)>>, 0), {})

OpcionTexts == {<<"1">>, <<"2", " ">>, <<" ", "3">>, <<"4">>, <<"5">>, <<"x">>, <<>>}
NameTexts == {<<"a">>, <<" ", "A">>, <<"b">>, <<" ">>}
PriceTexts == {<<"1">>, <<"-", "1">>, <<"x">>}
QuantityTexts == {<<"1">>, <<"x">>, BigDigits}

\* opcion = input(...).strip() and the if chain on it
Menu(text) ==
    LET opcion == Strip(text) IN
    \/ /\ opcion = <<"1">>
       /\ \E n \in NameTexts, p \in PriceTexts, c \in QuantityTexts : Opcion1(n, p, c)
    \/ /\ opcion = <<"2">>
       /\ \E n \in NameTexts : Opcion2(n)
    \/ /\ opcion = <<"3">>
       /\ Opcion3
    \/ /\ opcion = <<"4">>
       /\ Opcion4
    \/ /\ opcion = <<"5">>
       /\ Opcion5
    \/ /\ opcion \notin {<<"1">>, <<"2">>, <<"3">>, <<"4">>, <<"5">>}
       /\ OpcionInvalida(opcion)

ShellNext == \E text \in OpcionTexts : Menu(text)

ShellSpec == Init /\ [][ShellNext]_vars

\* C9 (as claimed): every menu action ends back at the menu prompt, whatever
\* the user typed: no exception leaves menu_principal, the loop is left by
\* option 5 alone, and a failed option 1 leaves the collection as it was.
C9_ShellAlwaysReturnsToMenu ==
    /\ pc # "crash"
    /\ pc = "salir" => Called("opcion5")
    /\ Called("opcion1") /\ ~Succeeded => Held = result.pre

====
